---- MODULE Spec2Model ----
(***************************************************************************)
(* NeuroShellOS semantic interpreter (sample.py): the pipeline that turns  *)
(* one line of free text into a creation or a mutation of an entity of the *)
(* registry.  Text is modelled as TLA+ strings, handled character by       *)
(* character exactly as the Python string and regex operations handle it.  *)
(***************************************************************************)
EXTENDS Integers, Sequences, FiniteSets, TLC

\* ------------------------------------------------------------------------
\* SDK_SCHEMA["constraints"]
\* ------------------------------------------------------------------------
metric_min == 0
metric_max == 100
max_data_items == 50
max_label_length == 32
id_prefix == "node-"
id_suffix_len == 4

\* Python's None: no regex match ever equals it (every id starts "node-",
\* every integer token is digits only).
None == "<None>"

\* ------------------------------------------------------------------------
\* Characters and the str methods the handler uses
\* ------------------------------------------------------------------------
HexChars == {"a", "b", "c", "d", "e", "f",
             "0", "1", "2", "3", "4", "5", "6", "7", "8", "9"}
Digits == {"0", "1", "2", "3", "4", "5", "6", "7", "8", "9"}
UpperAlpha == "ABCDEFGHIJKLMNOPQRSTUVWXYZ"
LowerAlpha == "abcdefghijklmnopqrstuvwxyz"
DigitAlpha == "0123456789"
Whitespace == {" "}
QuoteChars == {"'", "\""}

Ch(s, i) == SubSeq(s, i, i)
From(s, i) == SubSeq(s, i, Len(s))
IndexIn(alpha, c) == IF \E i \in 1..Len(alpha) : Ch(alpha, i) = c
                     THEN CHOOSE i \in 1..Len(alpha) : Ch(alpha, i) = c
                     ELSE 0
\* regex \w
IsWordChar(c) == IndexIn(UpperAlpha, c) > 0 \/ IndexIn(LowerAlpha, c) > 0
                 \/ c \in Digits \/ c = "_"

LowerChar(c) == IF IndexIn(UpperAlpha, c) > 0
                THEN Ch(LowerAlpha, IndexIn(UpperAlpha, c)) ELSE c
UpperChar(c) == IF IndexIn(LowerAlpha, c) > 0
                THEN Ch(UpperAlpha, IndexIn(LowerAlpha, c)) ELSE c

\* str.lower()
RECURSIVE Lower(_)
Lower(s) == IF Len(s) = 0 THEN "" ELSE LowerChar(Ch(s, 1)) \o Lower(From(s, 2))

\* str.capitalize(): first character upper-cased, the rest lower-cased
Capitalize(s) == IF Len(s) = 0 THEN "" ELSE UpperChar(Ch(s, 1)) \o Lower(From(s, 2))

\* str.strip()
RECURSIVE LStrip(_)
LStrip(s) == IF Len(s) > 0 /\ Ch(s, 1) \in Whitespace THEN LStrip(From(s, 2)) ELSE s
RECURSIVE RStrip(_)
RStrip(s) == IF Len(s) > 0 /\ Ch(s, Len(s)) \in Whitespace
             THEN RStrip(SubSeq(s, 1, Len(s) - 1)) ELSE s
Strip(s) == RStrip(LStrip(s))

\* s[:n]
Take(s, n) == IF Len(s) <= n THEN s ELSE SubSeq(s, 1, n)
\* s[-n:]
TakeLast(s, n) == IF Len(s) <= n THEN s ELSE SubSeq(s, Len(s) - n + 1, Len(s))

\* s[i:].startswith(w), i counted from 1
StartsAt(s, i, w) == i + Len(w) - 1 <= Len(s) /\ SubSeq(s, i, i + Len(w) - 1) = w
\* w in s
Contains(s, w) == \E i \in 1..Len(s) : StartsAt(s, i, w)
\* any(w in s for w in ws)
AnyIn(s, ws) == \E w \in ws : Contains(s, w)

\* str.replace(old, ""): every non-overlapping occurrence, left to right
RECURSIVE Remove(_, _)
Remove(s, old) ==
    IF Len(s) = 0 THEN ""
    ELSE IF StartsAt(s, 1, old) THEN Remove(From(s, Len(old) + 1), old)
    ELSE Ch(s, 1) \o Remove(From(s, 2), old)

\* str.split()[-1] of a stripped, non-empty string: the last
\* whitespace-delimited token
RECURSIVE LastToken(_)
LastToken(s) ==
    IF \E i \in 1..Len(s) : Ch(s, i) \in Whitespace
    THEN LastToken(From(s, 1 + CHOOSE i \in 1..Len(s) : Ch(s, i) \in Whitespace))
    ELSE s

\* int() of a string of decimal digits
RECURSIVE ToInt(_)
ToInt(d) == IF Len(d) = 0 THEN 0
            ELSE 10 * ToInt(SubSeq(d, 1, Len(d) - 1)) + (IndexIn(DigitAlpha, Ch(d, Len(d))) - 1)

\* ------------------------------------------------------------------------
\* The regular expressions
\* ------------------------------------------------------------------------
\* id_format r"node-[a-f0-9]{4}" matched at position i
IdAt(s, i) ==
    /\ StartsAt(s, i, id_prefix)
    /\ i + Len(id_prefix) + id_suffix_len - 1 <= Len(s)
    /\ \A j \in 0..(id_suffix_len - 1) : Ch(s, i + Len(id_prefix) + j) \in HexChars
IdLen == Len(id_prefix) + id_suffix_len

\* re.search(id_format, s): group(0) of the leftmost match, or None
SearchId(s) ==
    IF \E i \in 1..Len(s) : IdAt(s, i)
    THEN LET i == CHOOSE i \in 1..Len(s) : IdAt(s, i) /\ \A j \in 1..(i - 1) : ~IdAt(s, j)
         IN  SubSeq(s, i, i + IdLen - 1)
    ELSE None

\* re.sub(id_format, "", s)
RECURSIVE SubIds(_)
SubIds(s) ==
    IF Len(s) = 0 THEN ""
    ELSE IF IdAt(s, 1) THEN SubIds(From(s, IdLen + 1))
    ELSE Ch(s, 1) \o SubIds(From(s, 2))

\* re.findall(r"['\"](.*?)['\"]", s): the first element, or None when the
\* list is empty.  The leftmost match opens at the first quote character
\* and, lazily, closes at the next quote character of either kind.
QuotePositions(s) == {i \in 1..Len(s) : Ch(s, i) \in QuoteChars}
Min(S) == CHOOSE x \in S : \A y \in S : x <= y
FirstQuoted(s) ==
    LET q == QuotePositions(s) IN
    IF Cardinality(q) < 2 THEN None
    ELSE LET a == Min(q)
             b == Min(q \ {a})
         IN  SubSeq(s, a + 1, b - 1)

\* re.search(r"(?:called|named|item|for|to)\s+(.*)", s, re.I): group(1) of
\* the leftmost match, or None
Connectives == {"called", "named", "item", "for", "to"}
ConnectiveAt(s, i) ==
    \E w \in Connectives :
        /\ i + Len(w) <= Len(s)
        /\ Lower(SubSeq(s, i, i + Len(w) - 1)) = w
        /\ Ch(s, i + Len(w)) \in Whitespace
ConnectiveLen(s, i) ==
    Len(CHOOSE w \in Connectives :
            /\ i + Len(w) <= Len(s)
            /\ Lower(SubSeq(s, i, i + Len(w) - 1)) = w
            /\ Ch(s, i + Len(w)) \in Whitespace)
SearchConnective(s) ==
    IF \E i \in 1..Len(s) : ConnectiveAt(s, i)
    THEN LET i == Min({k \in 1..Len(s) : ConnectiveAt(s, k)})
         IN  LStrip(From(s, i + ConnectiveLen(s, i)))
    ELSE None

\* re.search(r"\b(\d+)\b", s): group(1) of the leftmost match, or None.  A
\* match is a maximal run of digits with no word character on either side.
DigitRunAt(s, i, j) ==
    /\ i <= j /\ j <= Len(s)
    /\ \A k \in i..j : Ch(s, k) \in Digits
    /\ (i = 1 \/ ~IsWordChar(Ch(s, i - 1)))
    /\ (j = Len(s) \/ ~IsWordChar(Ch(s, j + 1)))
SearchInt(s) ==
    LET starts == {i \in 1..Len(s) : \E j \in i..Len(s) : DigitRunAt(s, i, j)} IN
    IF starts = {} THEN None
    ELSE LET i == Min(starts)
             j == CHOOSE j \in i..Len(s) : DigitRunAt(s, i, j)
         IN  SubSeq(s, i, j)

\* ------------------------------------------------------------------------
\* Entities (the state dictionary and capability list of each widget class;
\* the Qt widgets themselves are presentation and carry no interpreter state)
\* ------------------------------------------------------------------------
BaseSemanticElement(eid, role, title) ==
    [cls |-> "BaseSemanticElement", eid |-> eid, role |-> role,
     state |-> [title |-> Take(title, max_label_length), color |-> "primary"],
     capabilities |-> <<"color_change">>]

MetricElement(eid, role, title) ==
    LET base == BaseSemanticElement(eid, role, title) IN
    [cls |-> "MetricElement", eid |-> eid, role |-> role,
     state |-> [title |-> base.state.title, color |-> base.state.color, value |-> 0],
     capabilities |-> Append(base.capabilities, "numeric_update")]

DataViewElement(eid, role, title) ==
    LET base == BaseSemanticElement(eid, role, title) IN
    [cls |-> "DataViewElement", eid |-> eid, role |-> role,
     state |-> [title |-> base.state.title, color |-> base.state.color, items |-> <<>>],
     capabilities |-> Append(base.capabilities, "list_append")]

StatusElement(eid, role, title) ==
    LET base == BaseSemanticElement(eid, role, title) IN
    [cls |-> "StatusElement", eid |-> eid, role |-> role,
     state |-> [title |-> base.state.title, color |-> base.state.color, active |-> FALSE],
     capabilities |-> Append(base.capabilities, "toggle_status")]

\* cap in el.capabilities
HasCapability(el, cap) == \E i \in 1..Len(el.capabilities) : el.capabilities[i] = cap

Max2(a, b) == IF a >= b THEN a ELSE b
Min2(a, b) == IF a <= b THEN a ELSE b

\* Variant of MetricElement.update_view that omits the upper bound
MetricUpdateViewNoUpperBound(el, val) ==
    [el EXCEPT !.state.value = Max2(metric_min, val)]

\* MetricElement.update_view(val)
MetricUpdateView(el, val) ==
    LET clamped_val == Max2(metric_min, Min2(metric_max, val))
    IN  [el EXCEPT !.state.value = clamped_val]

\* DataViewElement.update_view(new_item): a falsy new_item (the empty
\* string) is not appended
DataViewUpdateView(el, new_item) ==
    LET appended == IF new_item # "" THEN Append(el.state.items, new_item)
                    ELSE el.state.items
        limit == max_data_items
        kept == IF Len(appended) > limit THEN TakeLast(appended, limit) ELSE appended
    IN  [el EXCEPT !.state.items = kept]

\* Variant of the toggle that switches the element on instead of flipping it
StatusSwitchOn(el) == [el EXCEPT !.state.active = TRUE]

\* target.state["active"] = not target.state["active"]; StatusElement.update_view()
\* then only repaints the indicator
StatusToggle(el) == [el EXCEPT !.state.active = ~el.state.active]

\* ------------------------------------------------------------------------
\* uuid.uuid4() and the id built from it
\* ------------------------------------------------------------------------
\* str(uuid.uuid4()): 36 characters, lowercase hex in groups 8-4-4-4-12
\* separated by "-", version digit 4, variant digit 8, 9, a or b
IsUuid4(u) ==
    /\ Len(u) = 36
    /\ \A i \in 1..36 :
          IF i \in {9, 14, 19, 24} THEN Ch(u, i) = "-"
          ELSE IF i = 15 THEN Ch(u, i) = "4"
          ELSE IF i = 20 THEN Ch(u, i) \in {"8", "9", "a", "b"}
          ELSE Ch(u, i) \in HexChars
Uuid4Samples == {"ab12e4f0-7c3a-4b1d-9e2f-0a1b2c3d4e5f",
                 "ab1207c3-55d1-4e09-a6b4-91f3c07d2e88",
                 "cd34b6a9-0f2e-47c8-8d15-6e4a3b2c1d0f"}
Uuid4s == {u \in Uuid4Samples : IsUuid4(u)}

\* Variant of the id that slices the uuid4 string across its first separator
NewEidAcrossSeparator(u) == id_prefix \o SubSeq(u, 6, 5 + id_suffix_len)

\* f"node-{str(uuid.uuid4())[:4]}"
NewEid(u) == id_prefix \o Take(u, id_suffix_len)

\* ------------------------------------------------------------------------
\* process_intent: the locals computed before execute_intent is called
\* ------------------------------------------------------------------------
ExplicitMarkers == {"toggle", "switch", "set node", "update node"}
AppendMarkers == {"add item", "add to", "log", "append"}
ToggleKeywords == {"toggle", "switch"}
AppendKeywords == {"append", "item", "put", "insert", "log", "add to"}
NumericKeywords == {"update", "set", "push", "change"}
CreationVerbs == {"add", "new", "create", "make"}
MetricTopics == {"progress", "bar", "percent"}
DataTopics == {"data", "list", "view", "logs"}
StatusTopics == {"status", "indicator", "light", "toggle"}

\* Variant of the interaction phase that tests the append keywords first
ClassifyInteractionAppendFirst(text, target_id) ==
    IF target_id # None
    THEN IF AnyIn(text, AppendKeywords) THEN "INTERACT_APPEND"
         ELSE IF AnyIn(text, ToggleKeywords) THEN "INTERACT_TOGGLE"
         ELSE IF AnyIn(text, NumericKeywords) THEN "INTERACT_NUMERIC"
         ELSE "unknown"
    ELSE "unknown"

\* lines 183-189: the interaction phase
ClassifyInteraction(text, target_id) ==
    LET is_explicit_interact == AnyIn(text, ExplicitMarkers)
        is_append_interact == AnyIn(text, AppendMarkers)
    IN  IF target_id # None
           /\ (is_explicit_interact \/ is_append_interact \/ Contains(text, "node-"))
        THEN IF AnyIn(text, ToggleKeywords) THEN "INTERACT_TOGGLE"
             ELSE IF AnyIn(text, AppendKeywords) THEN "INTERACT_APPEND"
             ELSE IF AnyIn(text, NumericKeywords) THEN "INTERACT_NUMERIC"
             ELSE "unknown"
        ELSE "unknown"

\* lines 192-196: the creation phase
ClassifyCreation(text, intent) ==
    IF intent = "unknown" /\ AnyIn(text, CreationVerbs)
    THEN IF AnyIn(text, MetricTopics) THEN "CREATE_METRIC"
         ELSE IF AnyIn(text, DataTopics) THEN "CREATE_DATA"
         ELSE IF AnyIn(text, StatusTopics) THEN "CREATE_STATUS"
         ELSE "CREATE_BASE"
    ELSE intent

Classify(text, target_id) == ClassifyCreation(text, ClassifyInteraction(text, target_id))

\* lines 198-203
ExtractLabel(raw_text) ==
    LET quoted == FirstQuoted(raw_text)
        first == IF quoted # None THEN quoted ELSE ""
        label == IF first # "" THEN first
                 ELSE LET label_match == SearchConnective(raw_text)
                      IN  IF label_match # None THEN Strip(label_match)
                          ELSE Capitalize(LastToken(raw_text))
    IN  Strip(SubIds(label))

\* the locals of process_intent for a non-empty raw_text
Locals(raw_text) ==
    LET text == Lower(raw_text)
        target_id == SearchId(text)
    IN  [raw_text |-> raw_text, text |-> text, target_id |-> target_id,
         intent |-> Classify(text, target_id), label |-> ExtractLabel(raw_text)]

\* ------------------------------------------------------------------------
\* State
\* ------------------------------------------------------------------------
VARIABLES
    registry,     \* self.registry: eid -> the element object, named by its
                  \* position in canvas
    canvas,       \* the element objects in creation order (canvas_layout
                  \* holds every widget ever created, also one whose registry
                  \* key was later reassigned)
    log_display,  \* the lines the most recent handler run appended to the
                  \* log widget (earlier lines are never read back)
    frame,        \* the locals of the most recent process_intent run
    escaped,      \* whether an exception left that run unhandled
    before        \* history: registry and canvas when that run started

vars == <<registry, canvas, log_display, frame, escaped, before>>

\* ------------------------------------------------------------------------
\* Bounds of the model and the inputs explored
\* ------------------------------------------------------------------------
MaxEntities == 2
MaxItems == 2

Inputs == {
    "create a new progress bar called 'CPU Load'",
    "make a list",
    "new status light",
    "new toggle called Light",
    "create bar 'CPU Load' node-ef56",
    "create bar 'CPU Load' node-ab12",
    "create panel named Quarterly revenue dashboard of the northern region",
    "toggle node-ab12",
    "toggle node-cd34",
    "TOGGLE NODE-AB12",
    "new toggle node-cd34",
    "switch log set node-cd34 5",
    "toggle node-ef56",
    "set node-ab12 to 150",
    "set node-ab12 to -42",
    "set node-ab12 high",
    "log 'new entry' to node-cd34",
    "log to node-cd34",
    "set log 'new entry' node-cd34",
    "node-ab12",
    "hello there",
    "   "
}

SUCCESS_COLOR == "#10B981"
DANGER_COLOR == "#EF4444"

\* sys_log(msg, color): one "System:" line
SysLine(msg, color) == [who |-> "System", msg |-> msg, color |-> color]
\* line 172: the echo of the command
HumanLine(raw_text) == [who |-> "Human", msg |-> raw_text, color |-> ""]

NoFrame == [raw_text |-> "", text |-> None, target_id |-> None,
            intent |-> None, label |-> None]

\* ------------------------------------------------------------------------
\* execute_intent: each branch yields the new registry and canvas, the
\* (success, msg) pair, and whether an exception left the function
\* ------------------------------------------------------------------------
Outcome(reg, cv, success, msg) ==
    [registry |-> reg, canvas |-> cv, success |-> success, msg |-> msg, raised |-> FALSE]
\* self.registry[tid] with tid not a key
KeyError(reg, cv) ==
    [registry |-> reg, canvas |-> cv, success |-> FALSE, msg |-> "", raised |-> TRUE]

\* Variant of the creation branch that leaves the registry as it was
ExecCreateUnregistered(reg, cv, intent, label, u) ==
    LET eid == NewEid(u)
        el == IF intent = "CREATE_METRIC" THEN MetricElement(eid, "metric_display", label)
              ELSE IF intent = "CREATE_DATA" THEN DataViewElement(eid, "data_view", label)
              ELSE IF intent = "CREATE_STATUS" THEN StatusElement(eid, "status_indicator", label)
              ELSE BaseSemanticElement(eid, "primary_action", label)
    IN  Outcome(reg, Append(cv, el), TRUE, "Created " \o el.role \o " (" \o eid \o ")")

\* lines 212-219
ExecCreate(reg, cv, intent, label, u) ==
    LET eid == NewEid(u)
        el == IF intent = "CREATE_METRIC" THEN MetricElement(eid, "metric_display", label)
              ELSE IF intent = "CREATE_DATA" THEN DataViewElement(eid, "data_view", label)
              ELSE IF intent = "CREATE_STATUS" THEN StatusElement(eid, "status_indicator", label)
              ELSE BaseSemanticElement(eid, "primary_action", label)
        cv2 == Append(cv, el)
        reg2 == [k \in (DOMAIN reg) \cup {eid} |-> IF k = eid THEN Len(cv2) ELSE reg[k]]
    IN  Outcome(reg2, cv2, TRUE, "Created " \o el.role \o " (" \o eid \o ")")

\* Variant of the numeric branch that zeroes the metric when the text holds
\* no integer token
ExecNumericZeroOnMiss(reg, cv, tid, raw) ==
    IF tid \notin DOMAIN reg THEN KeyError(reg, cv)
    ELSE LET target == cv[reg[tid]] IN
         IF HasCapability(target, "numeric_update")
         THEN LET val_match == SearchInt(Remove(raw, tid)) IN
              IF val_match # None
              THEN LET updated == MetricUpdateView(target, ToInt(val_match)) IN
                   Outcome(reg, [cv EXCEPT ![reg[tid]] = updated], TRUE,
                           "Set " \o tid \o " to " \o ToString(updated.state.value) \o "%")
              ELSE Outcome(reg, [cv EXCEPT ![reg[tid]] = MetricUpdateView(target, 0)],
                           FALSE, "")
         ELSE Outcome(reg, cv, FALSE, "Capability Error: " \o tid \o " is not a metric.")

\* lines 220-227
ExecNumeric(reg, cv, tid, raw) ==
    IF tid \notin DOMAIN reg THEN KeyError(reg, cv)
    ELSE LET target == cv[reg[tid]] IN
         IF HasCapability(target, "numeric_update")
         THEN LET val_match == SearchInt(Remove(raw, tid)) IN
              IF val_match # None
              THEN LET updated == MetricUpdateView(target, ToInt(val_match)) IN
                   Outcome(reg, [cv EXCEPT ![reg[tid]] = updated], TRUE,
                           "Set " \o tid \o " to " \o ToString(updated.state.value) \o "%")
              ELSE Outcome(reg, cv, FALSE, "")
         ELSE Outcome(reg, cv, FALSE, "Capability Error: " \o tid \o " is not a metric.")

\* lines 228-232
ExecToggle(reg, cv, tid) ==
    IF tid \notin DOMAIN reg THEN KeyError(reg, cv)
    ELSE LET target == cv[reg[tid]] IN
         IF HasCapability(target, "toggle_status")
         THEN Outcome(reg, [cv EXCEPT ![reg[tid]] = StatusToggle(target)], TRUE,
                      "Toggled " \o tid)
         ELSE Outcome(reg, cv, FALSE, "")

\* lines 233-237
ExecAppend(reg, cv, tid, label) ==
    IF tid \notin DOMAIN reg THEN KeyError(reg, cv)
    ELSE LET target == cv[reg[tid]] IN
         IF HasCapability(target, "list_append")
         THEN Outcome(reg, [cv EXCEPT ![reg[tid]] = DataViewUpdateView(target, label)], TRUE,
                      "Logged data to " \o tid)
         ELSE Outcome(reg, cv, FALSE, "Capability Error: " \o tid \o " is not a data list.")

\* Variant of execute_intent without the guard of line 208
TargetMissingUnchecked(reg, tid) == FALSE

\* line 208: the guard in front of the dispatch
TargetMissing(reg, tid) == tid # None /\ tid \notin DOMAIN reg

\* execute_intent(intent, tid, label, raw); u is the uuid4 a creation draws.
\* Yields the new registry and canvas and the lines logged.
ExecuteIntent(reg, cv, intent, tid, label, raw, u) ==
    IF TargetMissing(reg, tid)
    THEN [registry |-> reg, canvas |-> cv, raised |-> FALSE,
          lines |-> <<SysLine("Error: Node '" \o tid \o "' not found.", DANGER_COLOR)>>]
    ELSE LET o == IF StartsAt(intent, 1, "CREATE_") THEN ExecCreate(reg, cv, intent, label, u)
                  ELSE IF intent = "INTERACT_NUMERIC" THEN ExecNumeric(reg, cv, tid, raw)
                  ELSE IF intent = "INTERACT_TOGGLE" THEN ExecToggle(reg, cv, tid)
                  ELSE IF intent = "INTERACT_APPEND" THEN ExecAppend(reg, cv, tid, label)
                  ELSE Outcome(reg, cv, FALSE, "")
         IN  [registry |-> o.registry, canvas |-> o.canvas, raised |-> o.raised,
              lines |-> IF o.raised THEN <<>>
                        ELSE IF o.success THEN <<SysLine(o.msg, SUCCESS_COLOR)>>
                        ELSE <<SysLine(IF o.msg # "" THEN o.msg
                                       ELSE "Interpreter: Semantic Mismatch.", DANGER_COLOR)>>]

\* ------------------------------------------------------------------------
\* Actions
\* ------------------------------------------------------------------------
\* NeuroShellOS.__init__: empty registry, the boot line logged
Init ==
    /\ registry = <<>>
    /\ canvas = <<>>
    /\ log_display = <<SysLine("Kernel Online. Semantic Disambiguator Active.", SUCCESS_COLOR)>>
    /\ frame = NoFrame
    /\ escaped = FALSE
    /\ before = [registry |-> <<>>, canvas |-> <<>>]

\* The sizes the model explores
WithinBounds(cv) ==
    /\ Len(cv) <= MaxEntities
    /\ \A k \in 1..Len(cv) :
          cv[k].cls = "DataViewElement" => Len(cv[k].state.items) <= MaxItems

\* The handler's parsing is a pure function of the input line
\* (raw_text = input.strip(), then the locals); over Inputs it is tabulated
\* once.
Parse(input) ==
    [input |-> input, raw_text |-> Strip(input),
     locals |-> IF Strip(input) = "" THEN NoFrame ELSE Locals(Strip(input))]
ParsedInputs == {Parse(i) : i \in Inputs}
Parsed(input) == CHOOSE p \in ParsedInputs : p.input = input

\* uuid.uuid4() is called by a creation only
NoUuid == "<no uuid4 drawn>"
Uuid4Draws(intent) == IF StartsAt(intent, 1, "CREATE_") THEN Uuid4s ELSE {NoUuid}

\* process_intent on a parsed line p
Handle(p) ==
    IF p.raw_text = ""
    THEN /\ frame' = NoFrame
         /\ log_display' = <<>>
         /\ escaped' = FALSE
         /\ before' = [registry |-> registry, canvas |-> canvas]
         /\ UNCHANGED <<registry, canvas>>
    ELSE \E u \in Uuid4Draws(p.locals.intent) :
         LET loc == p.locals
             r == ExecuteIntent(registry, canvas, loc.intent, loc.target_id,
                                loc.label, loc.text, u)
         IN  /\ WithinBounds(r.canvas)
             /\ frame' = loc
             /\ before' = [registry |-> registry, canvas |-> canvas]
             /\ registry' = r.registry
             /\ canvas' = r.canvas
             /\ escaped' = r.raised
             /\ log_display' = <<HumanLine(p.raw_text)>> \o r.lines

\* process_intent with the line edit holding `input`
ProcessIntent(input) == Handle(Parsed(input))

\* The first command of a session, its text composed of up to three parts:
\* the classifier and the label extractor over a wide set of texts
LeadWords == {"toggle", "switch", "log", "append", "insert", "put", "set", "update",
              "push", "change", "add", "new", "create", "make", "hello"}
MidWords == {"", "toggle", "item", "log", "set", "progress bar", "percent", "data",
             "list view", "logs", "status", "indicator light", "to"}
TailWords == {"", "node-ab12", "NODE-CD34", "node-xyz"}
FirstCommand(lead, mid, tail) ==
    /\ frame = NoFrame /\ Len(log_display) = 1
    /\ Handle(Parse(lead \o " " \o mid \o " " \o tail))

Next == \E input \in Inputs : ProcessIntent(input)

Spec == Init /\ [][Next]_vars

NextFirst == \E lead \in LeadWords, mid \in MidWords, tail \in TailWords :
                 FirstCommand(lead, mid, tail)

\* sessions of one command, over the composed texts
SpecClassify == Init /\ [][NextFirst]_vars

\* ------------------------------------------------------------------------
\* Vocabulary of the properties
\* ------------------------------------------------------------------------
CreateIntents == {"CREATE_BASE", "CREATE_METRIC", "CREATE_DATA", "CREATE_STATUS"}
InteractIntents == {"INTERACT_TOGGLE", "INTERACT_APPEND", "INTERACT_NUMERIC"}

\* the result messages of the most recent run
SystemLines == SelectSeq(log_display, LAMBDA l : l.who = "System")
\* a non-empty command has just been processed
Ran == frame # NoFrame
Succeeded == Ran /\ Len(SystemLines) = 1 /\ SystemLines[1].color = SUCCESS_COLOR
Failed == Ran /\ Len(SystemLines) = 1 /\ SystemLines[1].color = DANGER_COLOR
Message == SystemLines[1].msg

\* the target of the run, as the registry resolved it when the run started
TargetKnown == frame.target_id \in DOMAIN before.registry
TargetIndex == before.registry[frame.target_id]
TargetBefore == before.canvas[TargetIndex]
TargetAfter == canvas[TargetIndex]
Unchanged == registry = before.registry /\ canvas = before.canvas
OthersUnchanged ==
    /\ registry = before.registry
    /\ Len(canvas) = Len(before.canvas)
    /\ \A j \in 1..Len(canvas) : j # TargetIndex => canvas[j] = before.canvas[j]

\* the run created an element: it is the last of the canvas
Grew == Len(canvas) = Len(before.canvas) + 1
Newest == canvas[Len(canvas)]

\* the integer token a numeric interaction reads: the first integer token of
\* the text with the target id taken out
NumericToken == SearchInt(Remove(frame.text, frame.target_id))

\* ------------------------------------------------------------------------
\* C1: every Metric's value lies in [0,100]; a new Metric has value 0; a
\* successful numeric interaction with integer token n leaves
\* min(100, max(0, n)), a token above 100 clamping with success; no other
\* command changes the value of a Metric.
\* ------------------------------------------------------------------------
MetricValueClamped ==
    /\ \A k \in 1..Len(canvas) :
          canvas[k].cls = "MetricElement" =>
              canvas[k].state.value >= 0 /\ canvas[k].state.value <= 100
    /\ (Grew /\ Newest.cls = "MetricElement") => Newest.state.value = 0
    /\ (Ran /\ frame.intent = "INTERACT_NUMERIC" /\ Succeeded) =>
          LET n == ToInt(NumericToken) IN
          /\ TargetAfter.cls = "MetricElement"
          /\ TargetAfter.state.value = (IF n > 100 THEN 100 ELSE IF n < 0 THEN 0 ELSE n)
          /\ Message = "Set " \o frame.target_id \o " to "
                          \o ToString(TargetAfter.state.value) \o "%"
    /\ (Ran /\ frame.intent = "INTERACT_NUMERIC" /\ TargetKnown
            /\ TargetBefore.cls = "MetricElement" /\ NumericToken # None) => Succeeded
    /\ \A k \in 1..Len(before.canvas) :
          (before.canvas[k].cls = "MetricElement"
              /\ canvas[k].state.value # before.canvas[k].state.value) =>
                  /\ frame.intent = "INTERACT_NUMERIC" /\ Succeeded
                  /\ TargetIndex = k

MetricClampWitness ==
    /\ Ran /\ frame.intent = "INTERACT_NUMERIC" /\ Succeeded
    /\ ToInt(NumericToken) = 150
    /\ TargetBefore.state.value = 42
    /\ TargetAfter.state.value = 100

\* ------------------------------------------------------------------------
\* C2 (as stated): a DataView's items never exceed 50 and are the most
\* recent min(k,50) labels of the k append interactions applied to it, in
\* order.  Stated step by step: every successful append interaction leaves
\* the last 50 of (items before, then its label), and nothing else changes
\* the items of a DataView.
\* ------------------------------------------------------------------------
ItemsAreRecentAppends ==
    /\ \A k \in 1..Len(canvas) :
          canvas[k].cls = "DataViewElement" => Len(canvas[k].state.items) <= 50
    /\ (Ran /\ frame.intent = "INTERACT_APPEND" /\ Succeeded) =>
          LET all == Append(TargetBefore.state.items, frame.label)
          IN  TargetAfter.state.items =
                  (IF Len(all) > 50 THEN SubSeq(all, Len(all) - 49, Len(all)) ELSE all)
    /\ \A k \in 1..Len(before.canvas) :
          (before.canvas[k].cls = "DataViewElement"
              /\ canvas[k].state.items # before.canvas[k].state.items) =>
                  /\ frame.intent = "INTERACT_APPEND" /\ Succeeded
                  /\ TargetIndex = k

\* ------------------------------------------------------------------------
\* C3 (as stated): a create never produces an id that is already a registry
\* key: each successful create grows the registry by exactly one entry, and
\* an entry once inserted is never replaced or removed.
\* ------------------------------------------------------------------------
CreatedIdsUnique ==
    /\ \A k \in DOMAIN before.registry :
          k \in DOMAIN registry /\ registry[k] = before.registry[k]
    /\ (Ran /\ frame.intent \in CreateIntents /\ Succeeded) =>
          /\ Newest.eid \notin DOMAIN before.registry
          /\ Cardinality(DOMAIN registry) = Cardinality(DOMAIN before.registry) + 1

\* ------------------------------------------------------------------------
\* C4: every key of the registry is "node-" followed by exactly 4
\* characters of lowercase hex: the first 4 characters of the uuid4 string
\* never hold a separator or a non-hex character.
\* ------------------------------------------------------------------------
RegistryKeysMatchIdPattern ==
    \A k \in DOMAIN registry :
        /\ Len(k) = 9
        /\ SubSeq(k, 1, 5) = "node-"
        /\ \A i \in 6..9 :
              SubSeq(k, i, i) \in {"a", "b", "c", "d", "e", "f",
                                   "0", "1", "2", "3", "4", "5", "6", "7", "8", "9"}
        /\ canvas[registry[k]].eid = k

TwoKeysWitness ==
    /\ Cardinality(DOMAIN registry) = 2
    /\ Ran /\ frame.intent \in CreateIntents /\ Succeeded

\* ------------------------------------------------------------------------
\* C5 (as stated): every creation intent succeeds, in every registry state
\* and for every text: one new element of the corresponding variant is
\* inserted and a success message with its role and id is emitted.
\* ------------------------------------------------------------------------
VariantOf(intent) ==
    IF intent = "CREATE_METRIC" THEN "MetricElement"
    ELSE IF intent = "CREATE_DATA" THEN "DataViewElement"
    ELSE IF intent = "CREATE_STATUS" THEN "StatusElement"
    ELSE "BaseSemanticElement"
RoleOf(intent) ==
    IF intent = "CREATE_METRIC" THEN "metric_display"
    ELSE IF intent = "CREATE_DATA" THEN "data_view"
    ELSE IF intent = "CREATE_STATUS" THEN "status_indicator"
    ELSE "primary_action"

\* the run inserted one new element of the intent's variant and said so
CreatedOne ==
    /\ Succeeded
    /\ Grew
    /\ \A j \in 1..Len(before.canvas) : canvas[j] = before.canvas[j]
    /\ Newest.cls = VariantOf(frame.intent)
    /\ Newest.role = RoleOf(frame.intent)
    /\ DOMAIN registry = DOMAIN before.registry \cup {Newest.eid}
    /\ registry[Newest.eid] = Len(canvas)
    /\ \A k \in DOMAIN before.registry \ {Newest.eid} : registry[k] = before.registry[k]
    /\ Message = "Created " \o Newest.role \o " (" \o Newest.eid \o ")"

\* C5 (as stated): every creation intent ends in CreatedOne
CreateAlwaysSucceeds ==
    (Ran /\ frame.intent \in CreateIntents) => CreatedOne

\* C5 (amended): a creation intent whose text names no id, or names an id
\* that is a registry key, succeeds as stated; a creation intent whose text
\* names an id that is not a registry key ends in the not-found failure and
\* creates nothing.
CreateSucceedsUnlessTargetMissing ==
    (Ran /\ frame.intent \in CreateIntents) =>
        IF frame.target_id = None \/ TargetKnown
        THEN CreatedOne
        ELSE /\ Failed
             /\ Message = "Error: Node '" \o frame.target_id \o "' not found."
             /\ Unchanged

CreateNamingKnownIdWitness ==
    /\ Ran /\ frame.intent = "CREATE_METRIC"
    /\ frame.target_id = "node-ab12" /\ TargetKnown
    /\ CreatedOne

\* ------------------------------------------------------------------------
\* C6: a command that ends in a failure message leaves the registry and
\* every element unchanged; the failures are: target id not a registry key
\* (message "Error: Node '<id>' not found."), toggle on a non-Status, append
\* on a non-DataView, numeric on a non-Metric, numeric with no integer token
\* outside the id, and an unknown intent.
\* ------------------------------------------------------------------------
FailureChangesNothing ==
    /\ Failed => Unchanged
    /\ (Ran /\ frame.target_id # None /\ ~TargetKnown) =>
          Failed /\ Message = "Error: Node '" \o frame.target_id \o "' not found."
    /\ (Ran /\ frame.intent = "INTERACT_TOGGLE" /\ TargetKnown
            /\ TargetBefore.cls # "StatusElement") => Failed
    /\ (Ran /\ frame.intent = "INTERACT_APPEND" /\ TargetKnown
            /\ TargetBefore.cls # "DataViewElement") => Failed
    /\ (Ran /\ frame.intent = "INTERACT_NUMERIC" /\ TargetKnown
            /\ TargetBefore.cls # "MetricElement") => Failed
    /\ (Ran /\ frame.intent = "INTERACT_NUMERIC" /\ TargetKnown
            /\ NumericToken = None) => Failed
    /\ (Ran /\ frame.intent = "unknown") => Failed

NoTokenFailureWitness ==
    /\ Ran /\ frame.intent = "INTERACT_NUMERIC" /\ TargetKnown
    /\ TargetBefore.cls = "MetricElement" /\ TargetBefore.state.value = 42
    /\ NumericToken = None
    /\ Failed /\ Unchanged

\* ------------------------------------------------------------------------
\* C7: a toggle interaction on an existing Status element succeeds and
\* flips exactly that element's active flag, nothing else changing; a new
\* Status starts inactive; two consecutive toggles of the same element
\* return active to the value it had before the first.
\* ------------------------------------------------------------------------
StatusToggled ==
    /\ Ran /\ frame.intent = "INTERACT_TOGGLE"
    /\ TargetKnown /\ TargetBefore.cls = "StatusElement"

ToggleFlipsInvariant ==
    /\ StatusToggled =>
          /\ Succeeded
          /\ Message = "Toggled " \o frame.target_id
          /\ TargetAfter.state.active = ~TargetBefore.state.active
          /\ TargetAfter = [TargetBefore EXCEPT !.state.active = ~TargetBefore.state.active]
          /\ OthersUnchanged
    /\ (Grew /\ Newest.cls = "StatusElement") => Newest.state.active = FALSE

SecondToggleRestores ==
    (StatusToggled /\ StatusToggled' /\ frame'.target_id = frame.target_id) =>
        canvas'[registry[frame.target_id]].state.active
            = before.canvas[registry[frame.target_id]].state.active

\* C7: every toggle of a Status flips it alone and succeeds, a new Status is
\* inactive, and the second of two consecutive toggles restores the flag
ToggleFlips == [] ToggleFlipsInvariant /\ [][SecondToggleRestores]_vars

ToggledBackWitness ==
    /\ StatusToggled /\ Succeeded
    /\ TargetBefore.state.active = TRUE
    /\ TargetAfter.state.active = FALSE

LoggedLabelIsLast ==
    (Ran /\ frame.intent = "INTERACT_APPEND" /\ Succeeded
         /\ Message = "Logged data to " \o frame.target_id) =>
        /\ TargetAfter.state.items # <<>>
        /\ TargetAfter.state.items[Len(TargetAfter.state.items)] = frame.label

\* ------------------------------------------------------------------------
\* C9: with a target id in the text the intent is InteractToggle if a
\* toggle/switch keyword occurs, else InteractAppend if an append-group
\* keyword occurs, else InteractNumeric if update/set/push/change occurs;
\* the creation phase (gated on add/new/create/make; Metric before Data
\* before Status before Base) decides only when the interaction phase left
\* the intent unknown, so a text with a target id and the word "toggle" is
\* never CreateStatus; with neither phase matching the intent is unknown.
\* ------------------------------------------------------------------------
HasWord(ws) == \E w \in ws : Contains(frame.text, w)
TextHasId == \E i \in 1..Len(frame.text) : IdAt(frame.text, i)
InteractionOf ==
    IF ~TextHasId THEN "unknown"
    ELSE IF HasWord({"toggle", "switch"}) THEN "INTERACT_TOGGLE"
    ELSE IF HasWord({"append", "item", "put", "insert", "log", "add to"}) THEN "INTERACT_APPEND"
    ELSE IF HasWord({"update", "set", "push", "change"}) THEN "INTERACT_NUMERIC"
    ELSE "unknown"
CreationOf ==
    IF ~HasWord({"add", "new", "create", "make"}) THEN "unknown"
    ELSE IF HasWord({"progress", "bar", "percent"}) THEN "CREATE_METRIC"
    ELSE IF HasWord({"data", "list", "view", "logs"}) THEN "CREATE_DATA"
    ELSE IF HasWord({"status", "indicator", "light", "toggle"}) THEN "CREATE_STATUS"
    ELSE "CREATE_BASE"

\* C9: the intent is the interaction phase's when that is not unknown, and
\* the creation phase's otherwise
ClassificationPriority ==
    Ran =>
        /\ (frame.target_id # None) = TextHasId
        /\ frame.intent = (IF InteractionOf # "unknown" THEN InteractionOf ELSE CreationOf)
        /\ (TextHasId /\ HasWord({"toggle"})) => frame.intent # "CREATE_STATUS"

\* "new toggle node-cd34": a creation verb and a status topic, yet a toggle
ToggleWithIdWitness ==
    /\ Ran /\ frame.target_id = "node-cd34"
    /\ HasWord({"new"}) /\ HasWord({"toggle"})
    /\ frame.intent = "INTERACT_TOGGLE"
====
